---- MODULE Spec2Model ----
(***************************************************************************)
(* The /analyze endpoint of src/main.py: the prompt template, the          *)
(* prompt | model | parser chain, the handler analyze_code and the         *)
(* response_model validation FastAPI applies to what the handler returns.  *)
(*                                                                         *)
(* Texts are sequences of tokens.  A token is a record [tok, k, ty, v];    *)
(* a JSON value is a record [t, f, v] (f: the members of an object).       *)
(***************************************************************************)
EXTENDS Integers, Sequences, FiniteSets, TLC

\* ------------------------------------------------------------------ bounds
\* Number of /analyze requests the server handles concurrently.
MaxReq == 2
\* Number of fragments a language label or a code text is built from.
MaxFrags == 2

\* --------------------------------------------------- AnalysisOutput schema
\* The four str fields of class AnalysisOutput.
AnalysisOutput == {"time", "timeExplanation", "space", "spaceExplanation"}

\* ------------------------------------------------------------------ tokens
Tok(kind) == [tok |-> kind, k |-> "", ty |-> "", v |-> ""]
LBrace == Tok("{")
RBrace == Tok("}")
LBrack == Tok("[")
RBrack == Tok("]")
\* The markdown code fence (three backquotes) and the tag that may follow it.
Tick == Tok("fence")
Tag == Tok("json")
Prose(s) == [tok |-> "prose", k |-> "", ty |-> "", v |-> s]
Pair(key, type, val) == [tok |-> "pair", k |-> key, ty |-> type, v |-> val]
Scalar(type, val) == [tok |-> "scalar", k |-> "", ty |-> type, v |-> val]

\* The characters of one token, and of a text: what f"{text}" prints
\* (whitespace and the commas between members are not kept).
Quoted(ty, v) == IF ty = "str" THEN "\"" \o v \o "\"" ELSE v

Lexeme(t) ==
    CASE t.tok = "pair" -> "\"" \o t.k \o "\":" \o Quoted(t.ty, t.v)
      [] t.tok = "scalar" -> Quoted(t.ty, t.v)
      [] t.tok = "prose" -> t.v
      [] OTHER -> t.tok

RECURSIVE TextOf(_)
TextOf(s) == IF s = <<>> THEN "" ELSE Lexeme(Head(s)) \o TextOf(Tail(s))

\* ------------------------------------------------------------- JSON values
NoMembers == [x \in {} |-> [ty |-> "", v |-> ""]]
JObject(members) == [t |-> "obj", f |-> members, v |-> ""]
JArray == [t |-> "arr", f |-> NoMembers, v |-> ""]
JScalar(type, val) == [t |-> type, f |-> NoMembers, v |-> val]
\* None of Python.
JNone == [t |-> "null", f |-> NoMembers, v |-> "null"]

\* A Python dict literal of str values, as the handler's return statements build.
DictOf(rec) == JObject([x \in DOMAIN rec |-> [ty |-> "str", v |-> rec[x]]])

\* The members of an object from its pair tokens; a repeated key keeps its
\* last value, as json.loads does.
MembersOf(pairs) ==
    LET keys == {pairs[i].k : i \in DOMAIN pairs}
        last(key) == CHOOSE i \in DOMAIN pairs :
                        /\ pairs[i].k = key
                        /\ \A j \in DOMAIN pairs : pairs[j].k = key => j <= i
    IN [key \in keys |-> [ty |-> pairs[last(key)].ty, v |-> pairs[last(key)].v]]

Failed == [ok |-> FALSE, val |-> JNone]
Parsed(value) == [ok |-> TRUE, val |-> value]

\* json.loads on a whole text: one scalar, one object of pairs, or one array
\* of scalars; anything else is a JSONDecodeError.
JsonLoads(s) ==
    LET n == Len(s)
        inner == SubSeq(s, 2, n - 1)
        all(kind) == \A i \in DOMAIN inner : inner[i].tok = kind
    IN CASE n = 1 /\ s[1].tok = "scalar" -> Parsed(JScalar(s[1].ty, s[1].v))
         [] n >= 2 /\ s[1] = LBrace /\ s[n] = RBrace /\ all("pair") ->
                Parsed(JObject(MembersOf(inner)))
         [] n >= 2 /\ s[1] = LBrack /\ s[n] = RBrack /\ all("scalar") ->
                Parsed(JArray)
         [] OTHER -> Failed

\* The closers parse_partial_json would have to add: it scans the text once,
\* pushing a closer for each opener; a closer that does not match the top of
\* the stack makes it give up (bad).
RECURSIVE ScanClosers(_, _)
ScanClosers(s, stack) ==
    IF s = <<>> THEN [bad |-> FALSE, stack |-> stack]
    ELSE LET t == Head(s)
         IN CASE t = LBrace -> ScanClosers(Tail(s), <<RBrace>> \o stack)
              [] t = LBrack -> ScanClosers(Tail(s), <<RBrack>> \o stack)
              [] t \in {RBrace, RBrack} ->
                    IF stack # <<>> /\ Head(stack) = t
                    THEN ScanClosers(Tail(s), Tail(stack))
                    ELSE [bad |-> TRUE, stack |-> stack]
              [] OTHER -> ScanClosers(Tail(s), stack)

\* parse_partial_json, the parser parse_json_markdown uses by default: the text
\* as it is; else None on a mismatched closer; else the longest prefix that
\* parses once the open structures are closed; else the JSONDecodeError.
ParsePartialJson(s) ==
    LET scan == ScanClosers(s, <<>>)
        fits == {n \in 1..Len(s) : JsonLoads(SubSeq(s, 1, n) \o scan.stack).ok}
        best == CHOOSE n \in fits : \A m \in fits : m <= n
    IN IF JsonLoads(s).ok THEN JsonLoads(s)
       ELSE IF scan.bad THEN Parsed(JNone)
       ELSE IF fits # {} THEN JsonLoads(SubSeq(s, 1, best) \o scan.stack)
       ELSE Failed

\* str.strip of the backquotes (and whitespace) at both ends, in _parse_json.
RECURSIVE StripLeft(_)
StripLeft(s) == IF s # <<>> /\ Head(s) = Tick THEN StripLeft(Tail(s)) ELSE s

RECURSIVE StripRight(_)
StripRight(s) ==
    IF s # <<>> /\ s[Len(s)] = Tick THEN StripRight(SubSeq(s, 1, Len(s) - 1)) ELSE s

StripTicks(s) == StripRight(StripLeft(s))

\* The text after the first code fence and its optional tag: group 2 of the
\* fence pattern; the whole text when it has no fence.
AfterFence(s) ==
    LET at == {i \in DOMAIN s : s[i] = Tick}
        first == CHOOSE i \in at : \A j \in at : i <= j
        rest == SubSeq(s, first + 1, Len(s))
    IN IF at = {} THEN s
       ELSE IF rest # <<>> /\ Head(rest) = Tag THEN Tail(rest) ELSE rest

\* parse_json_markdown: the whole text first, then what is inside the fence.
ParseJsonMarkdown(s) ==
    LET whole == ParsePartialJson(StripTicks(s))
    IN IF whole.ok THEN whole ELSE ParsePartialJson(StripTicks(AfterFence(s)))

\* JsonOutputParser(pydantic_object=AnalysisOutput).parse_result: the JSON
\* value of the text, whatever its shape (pydantic_object only words the
\* format instructions), or OutputParserException, whose message starts
\* with "Invalid json output: " and the text.
parser(s) ==
    LET r == ParseJsonMarkdown(s)
    IN IF r.ok THEN [raised |-> FALSE, val |-> r.val, msg |-> ""]
       ELSE [raised |-> TRUE, val |-> JNone,
             msg |-> "Invalid json output: " \o TextOf(s)]

\* --------------------------------------------------------- prompt template
\* The human message of prompt_template around its two placeholders.
HumanHead == <<"\n", "Analyze the following code snippet, written in ">>
HumanMid == <<":", "\n", "\n", "<code>", "\n">>
HumanTail == <<"\n", "</code>", "\n">>

\* A prompt builder that pastes the code right after the language label.
RenderHumanUnmarked(language, code) == HumanHead \o language \o code \o HumanTail

\* The human message rendered for one input: the values are pasted in as
\* they are, nothing is escaped.
RenderHuman(language, code) == HumanHead \o language \o HumanMid \o code \o HumanTail

\* formatted_prompt: the system message (fixed text and the parser's format
\* instructions) and the rendered human message.
formatted_prompt(in) ==
    [system |-> "You are an expert algorithm analyst. {format_instructions}",
     human |-> RenderHuman(in.language, in.code)]

\* ------------------------------------------------------------------ inputs
\* CodeInput: a code text and a language label, both str, neither validated.
CodeInput ==
    { [language |-> <<"python">>, code |-> <<"for i in range(n): pass">>],
      [language |-> <<"c">>, code |-> <<"while (1)", "\n", ";">>] }

\* Texts built from at most n fragments: plain text, the template's text
\* between the placeholders, and the template's closing marker.
Frags == { <<"x">>, HumanMid, HumanTail }

RECURSIVE TextsUpTo(_)
TextsUpTo(n) ==
    IF n = 0 THEN { <<>> }
    ELSE LET less == TextsUpTo(n - 1)
         IN less \cup { s \o f : s \in less, f \in Frags }

PromptInputs ==
    [language : TextsUpTo(MaxFrags), code : TextsUpTo(MaxFrags)]

\* ------------------------------------------------- outcomes of the remote call
Conforming ==
    <<LBrace, Pair("time", "str", "O(n)"), Pair("timeExplanation", "str", "single pass"),
      Pair("space", "str", "O(1)"),
      Pair("spaceExplanation", "str", "constant extra memory"), RBrace>>

ModelTexts ==
    { Conforming,
      <<Tick, Tag>> \o Conforming \o <<Tick>>,
      Conforming \o <<Prose("Hope this helps")>>,
      <<Prose("Here is the analysis")>> \o Conforming,
      SubSeq(Conforming, 1, 5),
      SubSeq(Conforming, 1, 2),
      SubSeq(Conforming, 1, 5) \o <<Pair("confidence", "str", "high"), RBrace>>,
      SubSeq(Conforming, 1, 4) \o <<RBrace>>,
      SubSeq(Conforming, 1, 4) \o <<Pair("spaceExplanation", "num", "1"), RBrace>>,
      SubSeq(Conforming, 1, 4) \o <<Pair("spaceExplanation", "str", ""), RBrace>>,
      <<LBrace, Pair("time", "str", "Error"), Pair("timeExplanation", "str", "n/a"),
        Pair("space", "str", "Error"), Pair("spaceExplanation", "str", "n/a"), RBrace>>,
      <<LBrack, Scalar("str", "O(n)"), RBrack>>,
      <<Scalar("str", "O(n)")>>,
      <<RBrace>>,
      <<Prose("I cannot analyze this code")>> }

\* The messages of the exceptions chain.ainvoke may raise for the remote call.
ErrorMessages == {"", "Request timed out.", "Connection error."}

Outcomes ==
    [kind : {"raise"}, msg : ErrorMessages, text : {<<>>}]
        \cup [kind : {"text"}, msg : {""}, text : ModelTexts]

\* ---------------------------------------------------------------- responses
NoBody == [x \in {} |-> ""]

\* A value fits AnalysisOutput when it is a dict with the four fields, each a
\* str (pydantic 2 does not turn a number or null into a str).
Conforms(ret) ==
    /\ ret.t = "obj"
    /\ \A x \in AnalysisOutput : x \in DOMAIN ret.f /\ ret.f[x].ty = "str"

\* response_model=AnalysisOutput: FastAPI validates what the handler returned
\* against AnalysisOutput.  A dict holding the four fields as str gives 200
\* and just those fields; anything else is a ResponseValidationError, which
\* the handler cannot catch, and the caller gets 500.
response_model(ret) ==
    IF Conforms(ret)
    THEN [status |-> 200, body |-> [x \in AnalysisOutput |-> ret.f[x].v]]
    ELSE [status |-> 500, body |-> NoBody]

\* A not-configured result that reports its error only in the explanations.
NotConfiguredUnflagged ==
    DictOf([time |-> "N/A",
            timeExplanation |-> "Server-side model is not configured.",
            space |-> "N/A",
            spaceExplanation |-> "Please check the server logs."])

\* The dict of the `if not chain` branch.
NotConfigured ==
    DictOf([time |-> "Error",
            timeExplanation |-> "Server-side model is not configured.",
            space |-> "Error",
            spaceExplanation |-> "Please check the server logs."])

\* An except branch that keeps the exception's message to the server log.
AnalysisFailedNoMessage(msg) ==
    DictOf([time |-> "Error",
            timeExplanation |->
                "Failed to analyze code. The code may be incomplete or invalid.",
            space |-> "Error",
            spaceExplanation |-> "Server error: "])

\* The dict of the except branch, for the message of the exception.
AnalysisFailed(msg) ==
    DictOf([time |-> "Error",
            timeExplanation |->
                "Failed to analyze code. The code may be incomplete or invalid.",
            space |-> "Error",
            spaceExplanation |-> "Server error: " \o msg])

\* What the try block of analyze_code returns once chain.ainvoke is over:
\* the model raised, or the parser raised, or the parser's value as it is.
AfterAwait(outcome) ==
    LET p == parser(outcome.text)
    IN IF outcome.kind = "raise"
       THEN [branch |-> "except", ret |-> AnalysisFailed(outcome.msg)]
       ELSE IF p.raised
       THEN [branch |-> "except", ret |-> AnalysisFailed(p.msg)]
       ELSE [branch |-> "try", ret |-> p.val]

\* ------------------------------------------------------------------- state
VARIABLES
    model,    \* the ChatDeepSeek client, or "None" when its construction raised
    chain,    \* formatted_prompt | model | parser, or "None"
    pc,       \* where each request's analyze_code coroutine is
    input,    \* the CodeInput each request carries
    calls,    \* the prompts each request has sent to the remote model, in order
    reply,    \* what the remote call of each request came back with
    resp,     \* the HTTP response each request's caller receives
    branch    \* the return statement of analyze_code each request left by

vars == <<model, chain, pc, input, calls, reply, resp, branch>>

Reqs == 1..MaxReq

NoInput == [language |-> <<>>, code |-> <<>>]
NoReply == [kind |-> "none", msg |-> "", text |-> <<>>]
NoResp == [status |-> 0, body |-> NoBody]

\* `if model: chain = formatted_prompt | model | parser else: chain = None`.
ChainOf(m) == IF m # "None" THEN "formatted_prompt | model | parser" ELSE "None"

\* A handler that never takes the `if not chain` branch.
NotChainNever(ch) == FALSE

\* `if not chain`.
NotChain(ch) == ch = "None"

\* Module load: the client is built or, when ChatDeepSeek(...) raises, None.
InitRequests ==
    /\ pc = [r \in Reqs |-> "idle"]
    /\ input = [r \in Reqs |-> NoInput]
    /\ calls = [r \in Reqs |-> <<>>]
    /\ reply = [r \in Reqs |-> NoReply]
    /\ resp = [r \in Reqs |-> NoResp]
    /\ branch = [r \in Reqs |-> ""]

Init ==
    /\ model \in {"ChatDeepSeek", "None"}
    /\ chain = ChainOf(model)
    /\ InitRequests

\* The framework sends the response analyze_code returned, through response_model.
Return(r, how, ret) ==
    /\ resp' = [resp EXCEPT ![r] = response_model(ret)]
    /\ branch' = [branch EXCEPT ![r] = how]
    /\ pc' = [pc EXCEPT ![r] = "done"]

\* POST /analyze arrives: analyze_code runs up to its first suspension, the
\* await of chain.ainvoke, or returns at once when there is no chain.
Receive(r, in) ==
    /\ pc[r] = "idle"
    /\ input' = [input EXCEPT ![r] = in]
    /\ IF NotChain(chain)
       THEN /\ Return(r, "unconfigured", NotConfigured)
            /\ UNCHANGED calls
       ELSE /\ calls' = [calls EXCEPT ![r] = Append(@, formatted_prompt(in))]
            /\ pc' = [pc EXCEPT ![r] = "awaiting"]
            /\ UNCHANGED <<resp, branch>>
    /\ UNCHANGED <<model, chain, reply>>

\* The remote model answers the call of request r: a text, or an exception.
RemoteReply(r, outcome) ==
    /\ pc[r] = "awaiting"
    /\ reply' = [reply EXCEPT ![r] = outcome]
    /\ pc' = [pc EXCEPT ![r] = "replied"]
    /\ UNCHANGED <<model, chain, input, calls, resp, branch>>

\* An await that hands back the result kept in one place for all requests:
\* the reply of whichever request is waiting to resume.
AwaitedShared(r) == reply[CHOOSE q \in Reqs : pc[q] = "replied"]

\* What `await chain.ainvoke(...)` hands back to the coroutine of request r.
Awaited(r) == reply[r]

\* A handler that sends the prompt once more when the call raised.
ResumeRetry(r) ==
    /\ pc[r] = "replied"
    /\ IF reply[r].kind = "raise" /\ Len(calls[r]) < 2
       THEN /\ calls' = [calls EXCEPT ![r] = Append(@, formatted_prompt(input[r]))]
            /\ pc' = [pc EXCEPT ![r] = "awaiting"]
            /\ UNCHANGED <<resp, branch>>
       ELSE /\ LET out == AfterAwait(reply[r])
               IN Return(r, out.branch, out.ret)
            /\ UNCHANGED calls
    /\ UNCHANGED <<model, chain, input, reply>>

\* The coroutine of request r resumes after the await and returns.
Resume(r) ==
    /\ pc[r] = "replied"
    /\ LET out == AfterAwait(Awaited(r))
       IN Return(r, out.branch, out.ret)
    /\ UNCHANGED <<model, chain, input, calls, reply>>

Next ==
    \E r \in Reqs :
        \/ \E in \in CodeInput : Receive(r, in)
        \/ \E outcome \in Outcomes : RemoteReply(r, outcome)
        \/ Resume(r)

Spec == Init /\ [][Next]_vars

\* The prompt builder alone: one request, its language and code drawn from
\* the texts that carry the template's own markers.
PromptInit ==
    /\ model = "ChatDeepSeek"
    /\ chain = ChainOf(model)
    /\ InitRequests

PromptNext == \E in \in PromptInputs : Receive(1, in)

PromptSpec == PromptInit /\ [][PromptNext]_vars

\* ================================================================== claims
Done(r) == pc[r] = "done"
Sent(r) == Len(calls[r])
TextReply(r) == reply[r].kind = "text"
StartsWith(str, prefix) ==
    Len(str) >= Len(prefix) /\ SubSeq(str, 1, Len(prefix)) = prefix
Contains(s, part) ==
    \E i \in 0..(Len(s) - Len(part)) : SubSeq(s, i + 1, i + Len(part)) = part
FailureText == "Failed to analyze code. The code may be incomplete or invalid."

\* C1: every /analyze request that reaches analyze_code is answered with HTTP
\* 200, whatever the remote model did and also when there is no chain: nothing
\* gets past the handler, the validation of its return value included.
C1_AlwaysHttp200 == \A r \in Reqs : Done(r) => resp[r].status = 200

\* C2: every response body of /analyze has exactly the four fields time,
\* timeExplanation, space and spaceExplanation, each a non-empty text.
C2_FourNonEmptyFields ==
    \A r \in Reqs :
        Done(r) => /\ DOMAIN resp[r].body = AnalysisOutput
                   /\ \A x \in DOMAIN resp[r].body : resp[r].body[x] # ""

\* C3: when the client could not be built (model is None, so chain is None),
\* every request, whatever it carries and whatever came before it, is answered
\* with the fixed not-configured result and no prompt is ever sent.
C3_UnconfiguredFixedResult ==
    model = "None" =>
        /\ chain = "None"
        /\ \A r \in Reqs :
            /\ Sent(r) = 0
            /\ pc[r] \in {"idle", "done"}
            /\ Done(r) =>
                /\ resp[r].status = 200
                /\ resp[r].body =
                      [time |-> "Error",
                       timeExplanation |-> "Server-side model is not configured.",
                       space |-> "Error",
                       spaceExplanation |-> "Please check the server logs."]

C3_Witness ==
    /\ model = "None"
    /\ \A r \in Reqs : Done(r)
    /\ \E r, q \in Reqs : input[r] # input[q]

\* C4: a reply that is not valid JSON, or is JSON that does not fit the four
\* text fields, is answered like a failed remote call: HTTP 200 with the
\* failure result, its spaceExplanation starting with "Server error: ".
C4_BadReplyGetsFailureResult ==
    \A r \in Reqs :
        ( /\ Done(r)
          /\ TextReply(r)
          /\ \/ ~JsonLoads(reply[r].text).ok
             \/ ~Conforms(JsonLoads(reply[r].text).val) )
        => /\ resp[r].status = 200
           /\ DOMAIN resp[r].body = AnalysisOutput
           /\ resp[r].body["time"] = "Error"
           /\ resp[r].body["timeExplanation"] = FailureText
           /\ resp[r].body["space"] = "Error"
           /\ StartsWith(resp[r].body["spaceExplanation"], "Server error: ")

\* C5: when the remote call raises with message m, the caller gets HTTP 200
\* with time = "Error", the fixed failure explanation, space = "Error" and
\* spaceExplanation = "Server error: " followed by m, for the empty m too.
C5_RaiseGivesServerErrorMessage ==
    \A r \in Reqs :
        (Done(r) /\ reply[r].kind = "raise")
        => /\ resp[r].status = 200
           /\ resp[r].body =
                 [time |-> "Error",
                  timeExplanation |-> FailureText,
                  space |-> "Error",
                  spaceExplanation |-> "Server error: " \o reply[r].msg]
           /\ Contains(resp[r].body["spaceExplanation"], reply[r].msg)

C5_Witness ==
    \E r, q \in Reqs :
        /\ Done(r) /\ reply[r].kind = "raise" /\ reply[r].msg = ""
        /\ Done(q) /\ reply[q].kind = "raise" /\ reply[q].msg # ""

\* C6: when the text of the model parses, the caller gets the parsed value
\* as it is: the same fields with the same values, none added or dropped.
C6_ParsedValueReturnedUnmodified ==
    \A r \in Reqs :
        (Done(r) /\ branch[r] = "try")
        => /\ resp[r].status = 200
           /\ DictOf(resp[r].body) = parser(reply[r].text).val

\* The value of a field of a response; "" when the response has no such field.
Field(r, x) == IF x \in DOMAIN resp[r].body THEN resp[r].body[x] ELSE ""
FlaggedError(r) == Field(r, "time") = "Error" /\ Field(r, "space") = "Error"
\* The request failed: no chain, the call raised, or the text did not parse
\* into a value fitting the four fields.
FailurePath(r) ==
    \/ branch[r] \in {"unconfigured", "except"}
    \/ branch[r] = "try" /\ ~Conforms(parser(reply[r].text).val)

\* C7, as claimed: a response of a failure path has time = "Error" and
\* space = "Error", and a response of the success path has neither.
C7_ErrorMarksExactlyFailures ==
    \A r \in Reqs :
        Done(r) => IF FailurePath(r)
                   THEN FlaggedError(r)
                   ELSE Field(r, "time") # "Error" /\ Field(r, "space") # "Error"

\* C7, amended: a response the handler builds itself (no chain, or the except
\* branch) is HTTP 200 with time = "Error" and space = "Error"; a response
\* that is not so flagged comes from the try branch, and is then either the
\* four fields of the model's value or HTTP 500 with no field at all.
C7_SentinelsAreFlagged ==
    \A r \in Reqs :
        Done(r) =>
            /\ branch[r] \in {"unconfigured", "except"}
                  => resp[r].status = 200 /\ FlaggedError(r)
            /\ ~FlaggedError(r) =>
                  /\ branch[r] = "try"
                  /\ IF Conforms(parser(reply[r].text).val)
                     THEN resp[r].status = 200
                     ELSE resp[r].status = 500 /\ resp[r].body = NoBody

C7_Witness ==
    \E r, q \in Reqs :
        /\ Done(r) /\ branch[r] = "except" /\ TextReply(r) /\ FlaggedError(r)
        /\ Done(q) /\ branch[q] = "try" /\ ~FlaggedError(q) /\ resp[q].status = 200

\* The code text read back from a rendered human message: what stands between
\* the first occurrence of the template's middle text and the closing marker.
RecoverCode(msg) ==
    LET body == SubSeq(msg, Len(HumanHead) + 1, Len(msg) - Len(HumanTail))
        at == {i \in 0..(Len(body) - Len(HumanMid)) :
                  SubSeq(body, i + 1, i + Len(HumanMid)) = HumanMid}
        first == CHOOSE i \in at : \A j \in at : i <= j
    IN IF at = {} THEN <<>> ELSE SubSeq(body, first + Len(HumanMid) + 1, Len(body))

\* C8, as claimed: no two different (language, code) pairs render to the same
\* human message, also when they hold the template's own text.
C8_RenderingIsInjective ==
    \A r \in Reqs :
        pc[r] = "awaiting" =>
            \A other \in PromptInputs :
                RenderHuman(other.language, other.code) = calls[r][1].human
                    => other = input[r]

\* C8, amended: among the pairs whose language label does not hold the
\* template's text between the two placeholders, no two different pairs render
\* to the same human message, and the code is read back from the message as
\* what follows the first occurrence of that text; the code itself may hold
\* any of the template's text.
C8_InjectiveForPlainLanguage ==
    \A r \in Reqs :
        (pc[r] = "awaiting" /\ ~Contains(input[r].language, HumanMid)) =>
            /\ calls[r][1].human = RenderHuman(input[r].language, input[r].code)
            /\ Contains(calls[r][1].human, input[r].language)
            /\ RecoverCode(calls[r][1].human) = input[r].code
            /\ \A other \in PromptInputs :
                  ( /\ ~Contains(other.language, HumanMid)
                    /\ RenderHuman(other.language, other.code) = calls[r][1].human )
                  => other = input[r]

C8_Witness ==
    /\ pc[1] = "awaiting"
    /\ ~Contains(input[1].language, HumanMid)
    /\ Contains(input[1].language, HumanTail)
    /\ Contains(input[1].code, HumanMid)
    /\ Contains(input[1].code, HumanTail)

C10_OwnCallOwnResult ==
    \A r \in Reqs :
        /\ pc[r] \in {"awaiting", "replied"} =>
              calls[r] = <<formatted_prompt(input[r])>>
        /\ (Done(r) /\ chain # "None") =>
              /\ calls[r] = <<formatted_prompt(input[r])>>
              /\ resp[r] = response_model(AfterAwait(reply[r]).ret)
              /\ \A q \in Reqs :
                    (Done(q) /\ reply[q] = reply[r]) => resp[q] = resp[r]

C10_RequestsIndependent ==
    /\ []C10_OwnCallOwnResult
    /\ [][model' = model /\ chain' = chain]_vars

C10_Witness ==
    \E r, q \in Reqs :
        /\ Done(r) /\ pc[q] = "replied"
        /\ input[r] # input[q]
        /\ reply[r].kind = "text" /\ reply[q].kind = "raise"
        /\ resp[r].status = 200 /\ ~FlaggedError(r)
====
